---------------------------- MODULE Spec2Model ----------------------------
(***************************************************************************)
(* Model of src/main.py: the Kia vehicle-control HTTP gateway.             *)
(*                                                                         *)
(* Module start-up (lines 9-51) is a straight-line program with four       *)
(* places where it can stop; after it the Flask application serves five    *)
(* protected routes and the root route.  The development server handles    *)
(* every request on a thread of its own, so the handlers' calls into the   *)
(* shared vehicle_manager interleave: each handler is cut at its calls to  *)
(* the Session Client (vehicle_manager), the only places where it touches  *)
(* shared state.  The Session Client itself is outside the repository: a   *)
(* call either raises or returns, and a successful refresh leaves any      *)
(* snapshot of the account in vehicle_manager.vehicles.                    *)
(***************************************************************************)
EXTENDS Integers, Sequences, FiniteSets, TLC

\* Requests the model lets arrive after start-up (each on its own thread).
MaxRequests == 2
\* Most fields a /start_climate JSON body carries in SpecClimate.
MaxBodyFields == 2

None == "None"

Requests == 1..MaxRequests

(***************************************************************************)
(* The Session Client's data: vehicles of the account.  A Vehicle object   *)
(* has more attributes than the four the gateway reports.                  *)
(***************************************************************************)
Fleet ==
    { [id |-> "v1", name |-> "Niro",     model |-> "EV",  year |-> 2022, vin |-> "KN1"],
      [id |-> "v2", name |-> "Sportage", model |-> "HEV", year |-> 2023, vin |-> "KN2"] }

RECURSIVE DistinctSeqs(_)
\* All sequences of distinct vehicles of length at most n.
DistinctSeqs(n) ==
    IF n = 0 THEN { <<>> }
    ELSE LET shorter == DistinctSeqs(n - 1)
             longest == { t \in shorter : Len(t) = n - 1 }
         IN  shorter \cup
             { s \in { Append(t, v) : t \in longest, v \in Fleet } :
                 \A i, j \in 1..Len(s) : i < j => s[i].id # s[j].id }

\* What a refresh may leave in vehicle_manager.vehicles, a dict keyed by id
\* and kept in insertion order: any vehicles of the account, in any order.
Snapshots == DistinctSeqs(Cardinality(Fleet))

\* The failure a Session Client call may raise, by its description str(e).
Errors == { "connection timed out" }

\* The opaque value a Session Client command returns on success.
CommandResult == "action-id"

(***************************************************************************)
(* The process environment and the request inputs.                         *)
(***************************************************************************)
Environments ==
    [ KIA_USERNAME : { None, "user" },
      KIA_PASSWORD : { None, "pass" },
      KIA_PIN      : { None, "1234" },
      SECRET_KEY   : { None, "", "s3cret" },
      VEHICLE_ID   : { None, "v2" } ]

\* The Authorization header of a request; None when the header is absent.
Headers == { None, "wrong", "s3cret" }

ClimateFields ==
    { "set_temp", "duration", "air_condition", "defrost",
      "steering_wheel_heater", "rear_window_heater", "side_mirror_heater",
      "front_left_seat_status", "front_right_seat_status",
      "rear_left_seat_status", "rear_right_seat_status" }

SeatFields ==
    { "front_left_seat_status", "front_right_seat_status",
      "rear_left_seat_status", "rear_right_seat_status" }

\* The keys a body may carry: the eleven options and one the handler does
\* not know.
BodyKeys == ClimateFields \cup { "heating" }

\* JSON scalars are kept as their text: the handler only passes them on.
\* JSON null arrives as Python's None.
FieldValues(f) ==
    IF f = "set_temp" THEN { "16", None }
    ELSE IF f = "duration" THEN { "5", "30" }
    ELSE IF f \in SeatFields THEN { "On", "Off" }
    ELSE IF f = "heating" THEN { "1" }
    ELSE { "true", "false" }

JsonScalars == UNION { FieldValues(f) : f \in BodyKeys }

\* JSON objects with exactly the fields D, each with a value of its kind.
ObjectsOver(D) ==
    { o \in [D -> JsonScalars] : \A f \in D : o[f] \in FieldValues(f) }

\* A request body: a JSON object, or anything get_json() does not turn
\* into one (no body, a wrong content type, malformed JSON, JSON null).
NotJson == [json |-> FALSE, obj |-> <<>>]

JsonBody(o) == [json |-> TRUE, obj |-> o]

ClimateBodies ==
    { NotJson } \cup
    { JsonBody(o) : o \in UNION { ObjectsOver(D) :
          D \in { E \in SUBSET BodyKeys : Cardinality(E) <= MaxBodyFields } } }

\* The bodies the full gateway specification sends to /start_climate.
SampleBodies ==
    { NotJson, JsonBody([defrost |-> "true", set_temp |-> "16"]) }

NoBody == NotJson

(***************************************************************************)
(* Python helpers.                                                         *)
(***************************************************************************)
\* `not x` for a str-or-None value.
Falsy(x) == x = None \/ x = ""

\* dict.get(key, default)
DataGet(data, key, default) ==
    IF key \in DOMAIN data THEN data[key] ELSE default

\* next(iter(vehicles.keys()))
FirstKey(vs) == vs[1].id

VARIABLES
    environ,      \* os.environ, fixed for the process
    phase,        \* where start-up is: "credentials", "connect", "secret",
                  \* "vehicle", then "serving" or "exited"
    fatal,        \* why start-up stopped ("" while it has not)
    SECRET_KEY,   \* module global, line 41
    VEHICLE_ID,   \* module global, lines 46-50
    vehicles,     \* vehicle_manager.vehicles: the Vehicle Registry snapshot
    pc,           \* per request: "idle", "refresh", "act", "done"
    req,          \* per request: route, Authorization header, body
    calls,        \* per request: the Session Client calls made for it
    resp,         \* per request: the HTTP response
    replaced,     \* history, per request: another request's refresh put a
                  \* different snapshot in the registry after its own
                  \* refresh and before its handler went on
    seen,         \* history, per request: the snapshot list_vehicles read
    alone         \* history, per request: every earlier request had been
                  \* answered when it arrived

vars == << environ, phase, fatal, SECRET_KEY, VEHICLE_ID, vehicles,
           pc, req, calls, resp, replaced, seen, alone >>

config == << environ, phase, fatal, SECRET_KEY, VEHICLE_ID >>

NoRequest == [route |-> None, header |-> None, body |-> NoBody]
NoResponse == [status |-> 0]
NoOptions == <<>>
NotSeen == << "not read" >>

Init ==
    /\ environ \in Environments
    /\ phase = "credentials"
    /\ fatal = ""
    /\ SECRET_KEY = None
    /\ VEHICLE_ID = None
    /\ vehicles = <<>>
    /\ pc = [r \in Requests |-> "idle"]
    /\ req = [r \in Requests |-> NoRequest]
    /\ calls = [r \in Requests |-> <<>>]
    /\ resp = [r \in Requests |-> NoResponse]
    /\ replaced = [r \in Requests |-> FALSE]
    /\ seen = [r \in Requests |-> NotSeen]
    /\ alone = [r \in Requests |-> FALSE]

(***************************************************************************)
(* Start-up, lines 9-51.                                                   *)
(***************************************************************************)
Exit(why) ==
    /\ phase' = "exited"
    /\ fatal' = why

\* Lines 9-14: the three credentials must be set.
StartupCredentials ==
    /\ phase = "credentials"
    /\ IF \/ environ.KIA_USERNAME = None
          \/ environ.KIA_PASSWORD = None
          \/ environ.KIA_PIN = None
       THEN Exit("Missing credentials! Check your environment variables.")
       ELSE phase' = "connect" /\ fatal' = fatal
    /\ UNCHANGED << environ, SECRET_KEY, VEHICLE_ID, vehicles,
                    pc, req, calls, resp, replaced, seen, alone >>

\* Lines 17-38: construct the manager, refresh the token, load the vehicles;
\* any failure of the Session Client ends the process with exit(1).
StartupConnect ==
    /\ phase = "connect"
    /\ \/ /\ \E e \in Errors : Exit(e)
          /\ UNCHANGED vehicles
       \/ /\ \E s \in Snapshots : vehicles' = s
          /\ phase' = "secret"
          /\ fatal' = fatal
    /\ UNCHANGED << environ, SECRET_KEY, VEHICLE_ID,
                    pc, req, calls, resp, replaced, seen, alone >>

\* Mutant of StartupSecret: only an unset secret stops start-up.
StartupSecretNoneOnly ==
    /\ phase = "secret"
    /\ SECRET_KEY' = environ.SECRET_KEY
    /\ IF environ.SECRET_KEY = None
       THEN Exit("Missing SECRET_KEY environment variable.")
       ELSE phase' = "vehicle" /\ fatal' = fatal
    /\ UNCHANGED << environ, VEHICLE_ID, vehicles,
                    pc, req, calls, resp, replaced, seen, alone >>

\* Lines 41-43: the shared secret must be set and not empty.
StartupSecret ==
    /\ phase = "secret"
    /\ SECRET_KEY' = environ.SECRET_KEY
    /\ IF Falsy(environ.SECRET_KEY)
       THEN Exit("Missing SECRET_KEY environment variable.")
       ELSE phase' = "vehicle" /\ fatal' = fatal
    /\ UNCHANGED << environ, VEHICLE_ID, vehicles,
                    pc, req, calls, resp, replaced, seen, alone >>

\* Lines 46-51: the target vehicle is the configured one, else the first
\* of the registry; only the latter needs the registry not to be empty.
StartupVehicle ==
    /\ phase = "vehicle"
    /\ IF ~Falsy(environ.VEHICLE_ID)
       THEN /\ VEHICLE_ID' = environ.VEHICLE_ID
            /\ phase' = "serving"
            /\ fatal' = fatal
       ELSE IF vehicles = <<>>
       THEN /\ VEHICLE_ID' = environ.VEHICLE_ID
            /\ Exit("No vehicles found in the account.")
       ELSE /\ VEHICLE_ID' = FirstKey(vehicles)
            /\ phase' = "serving"
            /\ fatal' = fatal
    /\ UNCHANGED << environ, SECRET_KEY, vehicles,
                    pc, req, calls, resp, replaced, seen, alone >>

Startup ==
    \/ StartupCredentials
    \/ StartupConnect
    \/ StartupSecret
    \/ StartupVehicle

(***************************************************************************)
(* What the handlers share.                                                *)
(***************************************************************************)
\* Mutant of Authorized: a request without the header is let through.
AuthorizedOrAbsent(h) == h = None \/ h = SECRET_KEY

\* request.headers.get("Authorization") != SECRET_KEY, negated.
Authorized(h) == h = SECRET_KEY

\* return jsonify(body), status
Respond(r, status, body) ==
    /\ resp' = [resp EXCEPT ![r] = [status |-> status, body |-> body]]
    /\ pc' = [pc EXCEPT ![r] = "done"]

\* Mutant of HandlerExcept: the failure's description is not passed on.
HandlerExceptGeneric(r, e) == Respond(r, 500, [error |-> "Internal Server Error"])

\* except Exception as e: return jsonify({"error": str(e)}), 500
HandlerExcept(r, e) == Respond(r, 500, [error |-> e])

\* One call of a Session Client method made for request r.
Call(op, ok, vid, opts, error) ==
    [op |-> op, ok |-> ok, vid |-> vid, opts |-> opts, error |-> error]

Logged(r, c) == calls' = [calls EXCEPT ![r] = Append(@, c)]

\* app.run() is serving and request r is the next to arrive.
Arrives(r) ==
    /\ phase = "serving"
    /\ pc[r] = "idle"
    /\ IF r = 1 THEN TRUE ELSE pc[r - 1] # "idle"

\* Flask hands request r to the handler of `route`, whose first statement
\* compares the Authorization header with the secret.
Begin(r, route, h, b) ==
    /\ req' = [req EXCEPT ![r] = [route |-> route, header |-> h, body |-> b]]
    /\ alone' = [alone EXCEPT ![r] = \A q \in Requests : pc[q] \in { "idle", "done" }]
    /\ IF Authorized(h)
       THEN /\ pc' = [pc EXCEPT ![r] = "refresh"]
            /\ resp' = resp
       ELSE Respond(r, 403, [error |-> "Unauthorized"])
    /\ UNCHANGED << config, vehicles, calls, replaced, seen >>

\* Mutant of RefreshCall: the registry is refreshed only while it is empty.
RefreshCallIfEmpty(r) ==
    /\ \/ \E e \in Errors :
             /\ vehicles = <<>>
             /\ Logged(r, Call("refresh", FALSE, None, NoOptions, e))
             /\ HandlerExcept(r, e)
             /\ UNCHANGED << vehicles, replaced >>
       \/ \E s \in Snapshots :
             /\ vehicles = <<>>
             /\ vehicles' = s
             /\ Logged(r, Call("refresh", TRUE, None, NoOptions, ""))
             /\ pc' = [pc EXCEPT ![r] = "act"]
             /\ resp' = resp
             /\ replaced' = [q \in Requests |->
                    IF q = r THEN FALSE
                    ELSE replaced[q] \/ (pc[q] = "act" /\ s # vehicles)]
       \/ /\ vehicles # <<>>
          /\ pc' = [pc EXCEPT ![r] = "act"]
          /\ UNCHANGED << vehicles, calls, resp, replaced >>
    /\ UNCHANGED << config, req, seen, alone >>

\* Mutant of RefreshCall: a lock held from a request's refresh to its
\* command keeps every other request's refresh waiting.
RefreshCallLocked(r) ==
    /\ \A q \in Requests \ { r } : pc[q] # "act"
    /\ \/ \E e \in Errors :
             /\ Logged(r, Call("refresh", FALSE, None, NoOptions, e))
             /\ HandlerExcept(r, e)
             /\ UNCHANGED << vehicles, replaced >>
       \/ \E s \in Snapshots :
             /\ vehicles' = s
             /\ Logged(r, Call("refresh", TRUE, None, NoOptions, ""))
             /\ pc' = [pc EXCEPT ![r] = "act"]
             /\ resp' = resp
             /\ replaced' = [q \in Requests |->
                    IF q = r THEN FALSE
                    ELSE replaced[q] \/ (pc[q] = "act" /\ s # vehicles)]
    /\ UNCHANGED << config, req, seen, alone >>

\* vehicle_manager.update_all_vehicles_with_cached_state() inside the try:
\* it raises, or it returns having replaced the registry's snapshot.
RefreshCall(r) ==
    /\ \/ \E e \in Errors :
             /\ Logged(r, Call("refresh", FALSE, None, NoOptions, e))
             /\ HandlerExcept(r, e)
             /\ UNCHANGED << vehicles, replaced >>
       \/ \E s \in Snapshots :
             /\ vehicles' = s
             /\ Logged(r, Call("refresh", TRUE, None, NoOptions, ""))
             /\ pc' = [pc EXCEPT ![r] = "act"]
             /\ resp' = resp
             /\ replaced' = [q \in Requests |->
                    IF q = r THEN FALSE
                    ELSE replaced[q] \/ (pc[q] = "act" /\ s # vehicles)]
    /\ UNCHANGED << config, req, seen, alone >>

\* Mutant of CommandCall: the target is looked up again in the registry.
CommandCallFirstVehicle(r, op, opts, done) ==
    LET target == IF vehicles = <<>> THEN VEHICLE_ID ELSE FirstKey(vehicles)
    IN  /\ \/ \E e \in Errors :
                 /\ Logged(r, Call(op, FALSE, target, opts, e))
                 /\ HandlerExcept(r, e)
           \/ /\ Logged(r, Call(op, TRUE, target, opts, ""))
              /\ Respond(r, 200, [status |-> done, result |-> CommandResult])
        /\ UNCHANGED << config, vehicles, req, replaced, seen, alone >>

\* result = vehicle_manager.<op>(VEHICLE_ID, ...) inside the try, and the
\* return that follows it.
CommandCall(r, op, opts, done) ==
    /\ \/ \E e \in Errors :
             /\ Logged(r, Call(op, FALSE, VEHICLE_ID, opts, e))
             /\ HandlerExcept(r, e)
       \/ /\ Logged(r, Call(op, TRUE, VEHICLE_ID, opts, ""))
          /\ Respond(r, 200, [status |-> done, result |-> CommandResult])
    /\ UNCHANGED << config, vehicles, req, replaced, seen, alone >>

At(r, position, route) == pc[r] = position /\ req[r].route = route

(***************************************************************************)
(* GET /, lines 59-61.                                                     *)
(***************************************************************************)
Root(r) ==
    /\ Arrives(r)
    /\ req' = [req EXCEPT ![r] = [route |-> "/", header |-> None, body |-> NoBody]]
    /\ alone' = [alone EXCEPT ![r] = \A q \in Requests : pc[q] \in { "idle", "done" }]
    /\ Respond(r, 200, [status |-> "Welcome to the Kia Vehicle Control API"])
    /\ UNCHANGED << config, vehicles, calls, replaced, seen >>

(***************************************************************************)
(* GET /list_vehicles, lines 64-102.                                       *)
(***************************************************************************)
\* Mutant of VehicleList: the entries come out in reverse order.
VehicleListReversed(vs) ==
    [i \in 1..Len(vs) |->
        [name |-> vs[Len(vs) + 1 - i].name, id |-> vs[Len(vs) + 1 - i].id,
         model |-> vs[Len(vs) + 1 - i].model, year |-> vs[Len(vs) + 1 - i].year]]

\* Lines 84-92: one entry per Vehicle object, in the dict's order.
VehicleList(vs) ==
    [i \in 1..Len(vs) |->
        [name |-> vs[i].name, id |-> vs[i].id,
         model |-> vs[i].model, year |-> vs[i].year]]

ListVehicles_Begin(r) ==
    /\ Arrives(r)
    /\ \E h \in Headers : Begin(r, "/list_vehicles", h, NoBody)

ListVehicles_Refresh(r) ==
    /\ At(r, "refresh", "/list_vehicles")
    /\ RefreshCall(r)

\* Lines 76-99: read the registry and answer from what was read.
ListVehicles_Respond(r) ==
    /\ At(r, "act", "/list_vehicles")
    /\ seen' = [seen EXCEPT ![r] = vehicles]
    /\ IF vehicles = <<>>
       THEN Respond(r, 404, [error |-> "No vehicles found"])
       ELSE IF VehicleList(vehicles) = <<>>
       THEN Respond(r, 404, [error |-> "No valid vehicles found"])
       ELSE Respond(r, 200, [status |-> "Success",
                             vehicles |-> VehicleList(vehicles)])
    /\ UNCHANGED << config, vehicles, req, calls, replaced, alone >>

(***************************************************************************)
(* POST /start_climate, lines 105-183.                                     *)
(***************************************************************************)
\* Mutant of ClimateRequestOptions: defrost and air_condition change places.
ClimateRequestOptionsSwapped(set_temp, duration, air_condition, defrost, steering_wheel_heater, rear_window_heater, side_mirror_heater, front_left_seat_status, front_right_seat_status, rear_left_seat_status, rear_right_seat_status) ==
    [ set_temp                |-> set_temp,
      duration                |-> duration,
      air_condition           |-> defrost,
      defrost                 |-> air_condition,
      steering_wheel_heater   |-> steering_wheel_heater,
      rear_window_heater      |-> rear_window_heater,
      side_mirror_heater      |-> side_mirror_heater,
      front_left_seat_status  |-> front_left_seat_status,
      front_right_seat_status |-> front_right_seat_status,
      rear_left_seat_status   |-> rear_left_seat_status,
      rear_right_seat_status  |-> rear_right_seat_status ]

\* Lines 105-128: the module's own ClimateRequestOptions, which shadows
\* the imported one; __init__ stores each argument under its own name.
ClimateRequestOptions(set_temp, duration, air_condition, defrost, steering_wheel_heater, rear_window_heater, side_mirror_heater, front_left_seat_status, front_right_seat_status, rear_left_seat_status, rear_right_seat_status) ==
    [ set_temp                |-> set_temp,
      duration                |-> duration,
      air_condition           |-> air_condition,
      defrost                 |-> defrost,
      steering_wheel_heater   |-> steering_wheel_heater,
      rear_window_heater      |-> rear_window_heater,
      side_mirror_heater      |-> side_mirror_heater,
      front_left_seat_status  |-> front_left_seat_status,
      front_right_seat_status |-> front_right_seat_status,
      rear_left_seat_status   |-> rear_left_seat_status,
      rear_right_seat_status  |-> rear_right_seat_status ]

\* Lines 147-174: every option is read from the body with its default,
\* then handed to the constructor by keyword.
ClimateOptionsFrom(data) ==
    LET set_temp                == DataGet(data, "set_temp", "22")
        duration                == DataGet(data, "duration", "10")
        defrost                 == DataGet(data, "defrost", "false")
        air_condition           == DataGet(data, "air_condition", "false")
        steering_wheel_heater   == DataGet(data, "steering_wheel_heater", "false")
        rear_window_heater      == DataGet(data, "rear_window_heater", "false")
        side_mirror_heater      == DataGet(data, "side_mirror_heater", "false")
        front_left_seat_status  == DataGet(data, "front_left_seat_status", None)
        front_right_seat_status == DataGet(data, "front_right_seat_status", None)
        rear_left_seat_status   == DataGet(data, "rear_left_seat_status", None)
        rear_right_seat_status  == DataGet(data, "rear_right_seat_status", None)
    IN  ClimateRequestOptions(set_temp, duration, air_condition, defrost,
                              steering_wheel_heater, rear_window_heater,
                              side_mirror_heater, front_left_seat_status,
                              front_right_seat_status, rear_left_seat_status,
                              rear_right_seat_status)

\* What str(e) is when the body is not a JSON object and data.get fails.
BodyError == "'NoneType' object has no attribute 'get'"

StartClimate_Begin(r) ==
    /\ Arrives(r)
    /\ \E h \in Headers, b \in SampleBodies : Begin(r, "/start_climate", h, b)

\* The same handler entry, with every body of up to MaxBodyFields fields.
StartClimate_BeginAny(r) ==
    /\ Arrives(r)
    /\ \E h \in Headers, b \in ClimateBodies : Begin(r, "/start_climate", h, b)

StartClimate_Refresh(r) ==
    /\ At(r, "refresh", "/start_climate")
    /\ RefreshCall(r)

\* Mutant of StartClimate_Command: a body that is no JSON object counts as {}.
StartClimate_CommandLenient(r) ==
    /\ At(r, "act", "/start_climate")
    /\ CommandCall(r, "start_climate",
                   ClimateOptionsFrom(IF req[r].body.json THEN req[r].body.obj ELSE <<>>),
                   "Climate started")

\* Lines 144-180: parse the body, build the options, issue the command.
StartClimate_Command(r) ==
    /\ At(r, "act", "/start_climate")
    /\ IF req[r].body.json
       THEN CommandCall(r, "start_climate",
                        ClimateOptionsFrom(req[r].body.obj), "Climate started")
       ELSE /\ HandlerExcept(r, BodyError)
            /\ UNCHANGED << config, vehicles, req, calls, replaced, seen, alone >>

(***************************************************************************)
(* POST /stop_climate, lines 186-205.                                      *)
(***************************************************************************)
StopClimate_Begin(r) ==
    /\ Arrives(r)
    /\ \E h \in Headers : Begin(r, "/stop_climate", h, NoBody)

StopClimate_Refresh(r) ==
    /\ At(r, "refresh", "/stop_climate")
    /\ RefreshCall(r)

StopClimate_Command(r) ==
    /\ At(r, "act", "/stop_climate")
    /\ CommandCall(r, "stop_climate", NoOptions, "Climate stopped")

(***************************************************************************)
(* POST /unlock_car, lines 208-227.                                        *)
(***************************************************************************)
UnlockCar_Begin(r) ==
    /\ Arrives(r)
    /\ \E h \in Headers : Begin(r, "/unlock_car", h, NoBody)

UnlockCar_Refresh(r) ==
    /\ At(r, "refresh", "/unlock_car")
    /\ RefreshCall(r)

UnlockCar_Command(r) ==
    /\ At(r, "act", "/unlock_car")
    /\ CommandCall(r, "unlock", NoOptions, "Car unlocked")

(***************************************************************************)
(* POST /lock_car, lines 230-249.                                          *)
(***************************************************************************)
LockCar_Begin(r) ==
    /\ Arrives(r)
    /\ \E h \in Headers : Begin(r, "/lock_car", h, NoBody)

LockCar_Refresh(r) ==
    /\ At(r, "refresh", "/lock_car")
    /\ RefreshCall(r)

\* Mutant of LockCar_Command: a lock already acknowledged is not issued again.
LockCar_CommandOnce(r) ==
    /\ At(r, "act", "/lock_car")
    /\ IF \E q \in Requests \ { r } :
             \E i \in 1..Len(calls[q]) : calls[q][i].op = "lock" /\ calls[q][i].ok
       THEN /\ Respond(r, 200, [status |-> "Car locked", result |-> CommandResult])
            /\ UNCHANGED << config, vehicles, req, calls, replaced, seen, alone >>
       ELSE CommandCall(r, "lock", NoOptions, "Car locked")

LockCar_Command(r) ==
    /\ At(r, "act", "/lock_car")
    /\ CommandCall(r, "lock", NoOptions, "Car locked")

(***************************************************************************)
(* The gateway: start-up, then the requests, each on its own thread.       *)
(***************************************************************************)
Serve(r) ==
    \/ Root(r)
    \/ ListVehicles_Begin(r)
    \/ ListVehicles_Refresh(r)
    \/ ListVehicles_Respond(r)
    \/ StartClimate_Begin(r)
    \/ StartClimate_Refresh(r)
    \/ StartClimate_Command(r)
    \/ StopClimate_Begin(r)
    \/ StopClimate_Refresh(r)
    \/ StopClimate_Command(r)
    \/ UnlockCar_Begin(r)
    \/ UnlockCar_Refresh(r)
    \/ UnlockCar_Command(r)
    \/ LockCar_Begin(r)
    \/ LockCar_Refresh(r)
    \/ LockCar_Command(r)

Next ==
    \/ Startup
    \/ \E r \in Requests : Serve(r)

Spec == Init /\ [][Next]_vars

(***************************************************************************)
(* /start_climate alone: one request to a gateway that has started with    *)
(* no VEHICLE_ID configured, over every body of up to MaxBodyFields        *)
(* fields.                                                                 *)
(***************************************************************************)
InitClimate ==
    /\ environ = [KIA_USERNAME |-> "user", KIA_PASSWORD |-> "pass",
                  KIA_PIN |-> "1234", SECRET_KEY |-> "s3cret",
                  VEHICLE_ID |-> None]
    /\ phase = "serving"
    /\ fatal = ""
    /\ SECRET_KEY = "s3cret"
    /\ vehicles \in { s \in Snapshots : Len(s) = 1 }
    /\ VEHICLE_ID = FirstKey(vehicles)
    /\ pc = [r \in Requests |-> "idle"]
    /\ req = [r \in Requests |-> NoRequest]
    /\ calls = [r \in Requests |-> <<>>]
    /\ resp = [r \in Requests |-> NoResponse]
    /\ replaced = [r \in Requests |-> FALSE]
    /\ seen = [r \in Requests |-> NotSeen]
    /\ alone = [r \in Requests |-> FALSE]

NextClimate ==
    \/ StartClimate_BeginAny(1)
    \/ StartClimate_Refresh(1)
    \/ StartClimate_Command(1)

SpecClimate == InitClimate /\ [][NextClimate]_vars

(***************************************************************************)
(* Vocabulary of the properties.                                           *)
(***************************************************************************)
ControlRoutes == { "/start_climate", "/stop_climate", "/unlock_car", "/lock_car" }

ProtectedRoutes == ControlRoutes \cup { "/list_vehicles" }

\* The Session Client command that belongs to a control route.
CommandOf(route) ==
    IF route = "/start_climate" THEN "start_climate"
    ELSE IF route = "/stop_climate" THEN "stop_climate"
    ELSE IF route = "/unlock_car" THEN "unlock"
    ELSE "lock"

\* The header of request r equals the configured shared secret.
HeaderMatches(r) == req[r].header = environ.SECRET_KEY

Answered(r) == pc[r] = "done"

NumCalls(r) == Len(calls[r])

\* How many calls of op the two requests made together.
CountOp(r1, r2, op) ==
    Cardinality({ i \in 1..NumCalls(r1) : calls[r1][i].op = op }) +
    Cardinality({ i \in 1..NumCalls(r2) : calls[r2][i].op = op })

\* The defaults the specification documents for the ClimateRequest fields.
DocumentedDefault(f) ==
    IF f = "set_temp" THEN "22"
    ELSE IF f = "duration" THEN "10"
    ELSE IF f \in SeatFields THEN None
    ELSE "false"

(***************************************************************************)
(* C1, in two parts: what holds of a refused request in every state, and   *)
(* what holds of the step that refuses it.                                 *)
(***************************************************************************)
C1_RefusedState ==
    \A r \in Requests :
        (req[r].route \in ProtectedRoutes /\ ~HeaderMatches(r)) =>
            /\ Answered(r)
            /\ resp[r].status = 403
            /\ calls[r] = <<>>

C1_RefusedStep ==
    \A r \in Requests :
        (/\ pc[r] = "idle"
         /\ pc'[r] # "idle"
         /\ req'[r].route \in ProtectedRoutes
         /\ req'[r].header # environ.SECRET_KEY) =>
            /\ vehicles' = vehicles
            /\ calls' = calls

\* C1.  A request to a protected route whose Authorization header is absent
\* or differs from the configured secret is answered 403 at once, no Session
\* Client method is ever called for it, and the step that handles it leaves
\* the registry snapshot as it was.
C1_UnauthorizedIsRefused == [](C1_RefusedState) /\ [][C1_RefusedStep]_vars

\* Both an absent and a wrong header have been refused.
C1_Witness ==
    /\ \E r \in Requests :
          /\ req[r].route = "/list_vehicles" /\ req[r].header = None
          /\ Answered(r) /\ resp[r].status = 403
    /\ \E r \in Requests :
          /\ req[r].route = "/lock_car" /\ req[r].header = "wrong"
          /\ Answered(r) /\ resp[r].status = 403

(***************************************************************************)
(* C2.  An authorized request to a control route has made no call before   *)
(* its refresh, exactly one refresh once it is past it, and at most one    *)
(* command, which is the command of its route and comes only after the     *)
(* refresh has returned.                                                   *)
(***************************************************************************)
C2_RefreshThenCommand ==
    \A r \in Requests :
        (req[r].route \in ControlRoutes /\ HeaderMatches(r)) =>
            /\ pc[r] = "refresh" => NumCalls(r) = 0
            /\ pc[r] = "act" =>
                  /\ NumCalls(r) = 1
                  /\ calls[r][1].op = "refresh" /\ calls[r][1].ok
            /\ Answered(r) =>
                  /\ NumCalls(r) \in { 1, 2 }
                  /\ calls[r][1].op = "refresh"
                  /\ NumCalls(r) = 2 =>
                        /\ calls[r][1].ok
                        /\ calls[r][2].op = CommandOf(req[r].route)

\* A control request was answered after its refresh and its command, with
\* the registry not empty when it arrived.
C2_Witness ==
    \E r \in Requests :
        /\ req[r].route = "/stop_climate" /\ HeaderMatches(r) /\ Answered(r)
        /\ NumCalls(r) = 2
        /\ calls[r][2].op = "stop_climate"
        /\ resp[r].status = 200

(***************************************************************************)
(* C3.  When a Session Client call of an authorized request fails, that    *)
(* call is the request's last (nothing is retried), the response is 500    *)
(* with the failure's description, the server is still serving, and the    *)
(* next request can still arrive.                                          *)
(***************************************************************************)
C3_FailureIs500 ==
    \A r \in Requests :
        (/\ req[r].route \in ProtectedRoutes
         /\ HeaderMatches(r)
         /\ \E i \in 1..NumCalls(r) : ~calls[r][i].ok) =>
            /\ Answered(r)
            /\ ~calls[r][NumCalls(r)].ok
            /\ \A i \in 1..(NumCalls(r) - 1) :
                  calls[r][i].ok /\ calls[r][i].op # calls[r][NumCalls(r)].op
            /\ resp[r].status = 500
            /\ resp[r].body = [error |-> calls[r][NumCalls(r)].error]
            /\ phase = "serving"
            /\ \A q \in Requests :
                  (pc[q] = "idle" /\ (\A p \in 1..(q - 1) : pc[p] # "idle")) =>
                      ENABLED Serve(q)

\* A refresh failed for one request, and a request that arrived after the
\* 500 had been sent was served normally.
C3_Witness ==
    \E r, q \in Requests :
        /\ r < q
        /\ req[r].route = "/unlock_car" /\ Answered(r)
        /\ NumCalls(r) = 1 /\ ~calls[r][1].ok
        /\ resp[r].status = 500
        /\ req[q].route = "/unlock_car" /\ Answered(q) /\ alone[q]
        /\ resp[q].status = 200

(***************************************************************************)
(* C4.  As claimed: the serving state is never reached with a credential   *)
(* missing, with the secret missing or empty, or with an account that had  *)
(* no vehicle after the initial refresh, VEHICLE_ID configured or not.     *)
(* (Before the first request the registry still is the initial snapshot.)  *)
(***************************************************************************)
C4_Original ==
    phase = "serving" =>
        /\ environ.KIA_USERNAME # None
        /\ environ.KIA_PASSWORD # None
        /\ environ.KIA_PIN # None
        /\ environ.SECRET_KEY \notin { None, "" }
        /\ (\A r \in Requests : pc[r] = "idle") => vehicles # <<>>

(***************************************************************************)
(* C4, amended.  The same, except that an account without vehicles stops   *)
(* start-up only when no VEHICLE_ID is configured (unset or empty).        *)
(***************************************************************************)
C4_Amended ==
    phase = "serving" =>
        /\ environ.KIA_USERNAME # None
        /\ environ.KIA_PASSWORD # None
        /\ environ.KIA_PIN # None
        /\ environ.SECRET_KEY \notin { None, "" }
        /\ ((\A r \in Requests : pc[r] = "idle") /\ environ.VEHICLE_ID \in { None, "" })
              => vehicles # <<>>

\* Start-up stopped because the account had no vehicle to select.
C4_Witness ==
    /\ phase = "exited"
    /\ fatal = "No vehicles found in the account."
    /\ environ.VEHICLE_ID \in { None, "" }
    /\ vehicles = <<>>

(***************************************************************************)
(* C5, in two parts: the target named by the commands issued so far, and   *)
(* what a step may do to the target.                                       *)
(***************************************************************************)
C5_CommandsNameTarget ==
    \A r \in Requests : \A i \in 1..NumCalls(r) :
        calls[r][i].op # "refresh" => calls[r][i].vid = VEHICLE_ID

C5_TargetStep ==
    /\ phase = "serving" => VEHICLE_ID' = VEHICLE_ID
    /\ (phase = "vehicle" /\ phase' = "serving" /\ environ.VEHICLE_ID \in { None, "" })
          => VEHICLE_ID' = vehicles[1].id

\* C5.  With no VEHICLE_ID configured, start-up sets the target to the first
\* vehicle of the initial snapshot; once serving the target never changes;
\* and every command ever issued names it, whatever the registry holds.
C5_TargetIsFixed == [](C5_CommandsNameTarget) /\ [][C5_TargetStep]_vars

\* A command went to the target chosen at start-up although the registry
\* by then began with another vehicle.
C5_Witness ==
    \E r \in Requests :
        /\ environ.VEHICLE_ID = None
        /\ req[r].route = "/lock_car" /\ Answered(r)
        /\ NumCalls(r) = 2 /\ calls[r][2].ok
        /\ calls[r][2].vid = VEHICLE_ID
        /\ vehicles # <<>>
        /\ vehicles[1].id # VEHICLE_ID

(***************************************************************************)
(* C6.  An authorized /list_vehicles request whose refresh succeeded made  *)
(* no other call, and its answer follows from the snapshot the handler     *)
(* read after the refresh: 404 when that is empty, else 200 with one       *)
(* entry per vehicle, in order, each the vehicle's id, name, model, year.  *)
(***************************************************************************)
C6_ListIsProjection ==
    \A r \in Requests :
        (/\ req[r].route = "/list_vehicles"
         /\ HeaderMatches(r)
         /\ Answered(r)
         /\ NumCalls(r) >= 1
         /\ calls[r][1].ok) =>
            /\ NumCalls(r) = 1
            /\ seen[r] \in Snapshots
            /\ IF seen[r] = <<>>
               THEN resp[r].status = 404
               ELSE /\ resp[r].status = 200
                    /\ Len(resp[r].body.vehicles) = Len(seen[r])
                    /\ \A i \in 1..Len(seen[r]) :
                          resp[r].body.vehicles[i] =
                              [id    |-> seen[r][i].id,
                               name  |-> seen[r][i].name,
                               model |-> seen[r][i].model,
                               year  |-> seen[r][i].year]

\* A list of two vehicles was returned.
C6_Witness ==
    \E r \in Requests :
        /\ req[r].route = "/list_vehicles" /\ Answered(r)
        /\ resp[r].status = 200
        /\ Len(resp[r].body.vehicles) = 2
        /\ Len(seen[r]) = 2

(***************************************************************************)
(* C7.  Every start-climate command carries options with exactly the       *)
(* eleven fields, each holding the body's value when the body has the      *)
(* field and the documented default when it has not; and an authorized     *)
(* request with a JSON object body whose refresh succeeded issued it.      *)
(***************************************************************************)
C7_OptionsAreMerged ==
    \A r \in Requests :
        /\ \A i \in 1..NumCalls(r) :
              calls[r][i].op = "start_climate" =>
                  /\ req[r].body.json
                  /\ DOMAIN calls[r][i].opts = ClimateFields
                  /\ \A f \in ClimateFields :
                        calls[r][i].opts[f] =
                            IF f \in DOMAIN req[r].body.obj
                            THEN req[r].body.obj[f]
                            ELSE DocumentedDefault(f)
        /\ (/\ req[r].route = "/start_climate" /\ HeaderMatches(r) /\ Answered(r)
            /\ req[r].body.json
            /\ NumCalls(r) >= 1 /\ calls[r][1].ok) =>
               /\ NumCalls(r) = 2
               /\ calls[r][2].op = "start_climate"

\* A command was issued for a body that sets defrost and air_condition
\* differently and leaves the other fields out.
C7_Witness ==
    \E r \in Requests :
        /\ req[r].route = "/start_climate" /\ Answered(r)
        /\ req[r].body.json
        /\ DOMAIN req[r].body.obj = { "defrost", "air_condition" }
        /\ req[r].body.obj["defrost"] = "true"
        /\ req[r].body.obj["air_condition"] = "false"
        /\ NumCalls(r) = 2 /\ calls[r][2].ok
        /\ resp[r].status = 200

(***************************************************************************)
(* C8.  An authorized /lock_car request whose calls all succeed is         *)
(* answered 200 "Car locked" after its own refresh and its own lock of     *)
(* the target vehicle, whatever other requests did; two such requests      *)
(* make two refreshes and two lock commands.                               *)
(***************************************************************************)
C8_LockSucceeds(r) ==
    /\ req[r].route = "/lock_car"
    /\ HeaderMatches(r)
    /\ Answered(r)
    /\ \A i \in 1..NumCalls(r) : calls[r][i].ok

C8_NoDeduplication ==
    /\ \A r \in Requests :
          C8_LockSucceeds(r) =>
              /\ resp[r] = [status |-> 200,
                            body |-> [status |-> "Car locked", result |-> CommandResult]]
              /\ NumCalls(r) = 2
              /\ calls[r][1].op = "refresh"
              /\ calls[r][2].op = "lock"
              /\ calls[r][2].vid = VEHICLE_ID
    /\ \A r1, r2 \in Requests :
          (r1 < r2 /\ C8_LockSucceeds(r1) /\ C8_LockSucceeds(r2)) =>
              /\ CountOp(r1, r2, "refresh") = 2
              /\ CountOp(r1, r2, "lock") = 2

\* Two /lock_car requests in succession, both acknowledged.
C8_Witness ==
    \E r1, r2 \in Requests :
        /\ r1 < r2
        /\ C8_LockSucceeds(r1) /\ C8_LockSucceeds(r2)
        /\ alone[r2]
        /\ resp[r1].status = 200 /\ resp[r2].status = 200

(***************************************************************************)
(* C9.  Nothing orders one request's refresh-then-act sequence against     *)
(* another request: while a request is between its refresh and its         *)
(* command, a request waiting to refresh can do so at once (and so can     *)
(* replace the snapshot the first one's command will run under).           *)
(***************************************************************************)
C9_RefreshNotExcluded ==
    \A r, q \in Requests :
        (r # q /\ pc[r] = "act" /\ pc[q] = "refresh") => ENABLED Serve(q)

\* A command was issued after another request's refresh had replaced the
\* snapshot stored by the issuing request's own refresh.
C9_Witness ==
    \E r, q \in Requests :
        /\ r # q
        /\ req[r].route = "/unlock_car" /\ req[q].route = "/lock_car"
        /\ Answered(r)
        /\ NumCalls(r) = 2 /\ calls[r][2].op = "unlock"
        /\ replaced[r]

(***************************************************************************)
(* C10.  On a control route a failed refresh, or for /start_climate a      *)
(* body that is no JSON object, ends the request with 500 and without a    *)
(* command; and a 200 was preceded by exactly one successful refresh       *)
(* followed by one successful call of the route's command.                 *)
(***************************************************************************)
C10_CommandOnlyAfterRefresh ==
    \A r \in Requests :
        (req[r].route \in ControlRoutes /\ HeaderMatches(r) /\ Answered(r)) =>
            /\ (\/ ~calls[r][1].ok
                \/ (req[r].route = "/start_climate" /\ ~req[r].body.json)) =>
                  /\ resp[r].status = 500
                  /\ NumCalls(r) = 1
                  /\ calls[r][1].op = "refresh"
            /\ resp[r].status = 200 =>
                  /\ NumCalls(r) = 2
                  /\ calls[r][1].op = "refresh" /\ calls[r][1].ok
                  /\ calls[r][2].op = CommandOf(req[r].route) /\ calls[r][2].ok

\* A /start_climate request with an unreadable body was refused after its
\* refresh had succeeded.
C10_Witness ==
    \E r \in Requests :
        /\ req[r].route = "/start_climate" /\ HeaderMatches(r) /\ Answered(r)
        /\ ~req[r].body.json
        /\ NumCalls(r) = 1 /\ calls[r][1].ok
        /\ resp[r].status = 500

=============================================================================
